---- MODULE Spec2Model ----
(***************************************************************************)
(* A model of the flag game's asset tooling.                               *)
(*                                                                         *)
(*   - tools/fetch-assets.mjs: parseArgs, fetchCountries,                  *)
(*     saveCountriesJson, download, downloadFlags and main, as a state     *)
(*     machine over the command line, the upstream response, the disk and  *)
(*     the download log;                                                   *)
(*   - the application's country-list resolver and the service worker's    *)
(*     cache-first layer, which the README describes.                      *)
(*                                                                         *)
(* JavaScript strings are sequences of one-character strings, so that      *)
(* split, toUpperCase, the regular expression and localeCompare are        *)
(* computed character by character.  mkdir, access and writeFile are taken  *)
(* to succeed; fetch may reject or answer with any status.                 *)
(***************************************************************************)
EXTENDS Integers, Sequences, FiniteSets, TLC

VARIABLES
    pc,         \* position of main: start, parsed, fetched, saved, svg, png, done, exit1
    args,       \* process.argv.slice(2)
    opts,       \* the options parseArgs returned
    data,       \* the body the REST Countries API answers with
    countries,  \* what fetchCountries returned
    dirs,       \* directories that exist
    files,      \* paths of the files that exist
    files0,     \* the files that existed when the run started
    jsonDoc,    \* the content of assets/countries.json
    written,    \* paths written by this run
    idx,        \* position of downloadFlags' loop in list (1-based)
    ok,         \* downloadFlags' ok counter
    fail,       \* downloadFlags' fail counter
    attempts    \* the calls of download made so far, in order

VARIABLES
    swCache,    \* service worker: the resources held in the cache
    swNet,      \* service worker: network transfers made, per resource
    swLast,     \* service worker: how the last request was answered
    appPc,      \* resolver: off, idle, remote, ready, missing
    appSession, \* resolver: the number of the page load
    appLocal,   \* resolver: status of the bundled assets/countries.json
    appStore,   \* resolver: the simplified list kept in localStorage
    appList,    \* resolver: the list handed to the game
    appReqs     \* resolver: the requests issued, in order

runVars == <<pc, args, opts, data, countries, dirs, files, files0, jsonDoc,
             written, idx, ok, fail, attempts>>
swVars == <<swCache, swNet, swLast>>
appVars == <<appPc, appSession, appLocal, appStore, appList, appReqs>>
vars == <<runVars, swVars, appVars>>

(***************************************************************************)
(* Bounds of the model.                                                    *)
(***************************************************************************)
MaxData == 2
MaxArgs == 3
MaxRunArgs == 1
MaxFetch == 2
MaxSessions == 2

(***************************************************************************)
(* Characters and strings.                                                 *)
(***************************************************************************)
UpperLetters ==
    <<"A","B","C","D","E","F","G","H","I","J","K","L","M",
      "N","O","P","Q","R","S","T","U","V","W","X","Y","Z">>

LowerLetters ==
    <<"a","b","c","d","e","f","g","h","i","j","k","l","m",
      "n","o","p","q","r","s","t","u","v","w","x","y","z">>

Digits == <<"0","1","2","3","4","5","6","7","8","9">>

IsUpperLetter(c) == \E i \in DOMAIN UpperLetters : UpperLetters[i] = c
IsLowerLetter(c) == \E i \in DOMAIN LowerLetters : LowerLetters[i] = c
IsDigit(c) == \E i \in DOMAIN Digits : Digits[i] = c

LetterIndex(c) ==
    CHOOSE i \in DOMAIN UpperLetters : UpperLetters[i] = c \/ LowerLetters[i] = c

DigitValue(c) == (CHOOSE i \in DOMAIN Digits : Digits[i] = c) - 1

toUpperCase(s) ==
    [i \in DOMAIN s |-> IF IsLowerLetter(s[i]) THEN UpperLetters[LetterIndex(s[i])] ELSE s[i]]

toLowerCase(s) ==
    [i \in DOMAIN s |-> IF IsUpperLetter(s[i]) THEN LowerLetters[LetterIndex(s[i])] ELSE s[i]]

includes(s, c) == \E i \in DOMAIN s : s[i] = c

\* s.split(sep) for a one-character separator: the pieces between separators.
RECURSIVE split(_, _)
split(s, sep) ==
    IF ~includes(s, sep) THEN <<s>>
    ELSE LET k == CHOOSE i \in DOMAIN s :
                      s[i] = sep /\ \A j \in 1..(i - 1) : s[j] # sep
         IN  <<SubSeq(s, 1, k - 1)>> \o split(SubSeq(s, k + 1, Len(s)), sep)

(***************************************************************************)
(* JavaScript values that are a string, undefined or null.                 *)
(***************************************************************************)
Undefined == [t |-> "undefined", s |-> <<>>]
Null == [t |-> "null", s |-> <<>>]
Str(s) == [t |-> "string", s |-> s]

IsNullish(v) == v.t \in {"undefined", "null"}
Truthy(v) == v.t = "string" /\ v.s # <<>>

\* String(x)
String(v) ==
    CASE v.t = "string" -> v.s
      [] v.t = "null" -> <<"n","u","l","l">>
      [] OTHER -> <<"u","n","d","e","f","i","n","e","d">>

(***************************************************************************)
(* fetchCountries: map, filter, sort.                                      *)
(***************************************************************************)
\* A JavaScript object is the list of its own properties, in insertion order.
Prop(obj, k) == obj[CHOOSE i \in DOMAIN obj : obj[i][1] = k][2]

\* c.name?.common
NameCommon(c) == IF c.name.t = "object" THEN c.name.common ELSE Undefined

\* (c) => ({ code: String(c.cca2 || '').toUpperCase(), name: c.name?.common || '' })
MapCountry(c) ==
    << <<"code", toUpperCase(String(IF Truthy(c.cca2) THEN c.cca2 ELSE Str(<<>>)))>>,
       <<"name", IF Truthy(NameCommon(c)) THEN NameCommon(c).s ELSE <<>>>> >>

\* /^[A-Z]{2}$/.test(code)
TwoUpperRegex(code) == Len(code) = 2 /\ \A i \in DOMAIN code : IsUpperLetter(code[i])

\* The filter without its exclusion of XK.
FilterCountryKeepsXK(c) ==
    /\ TwoUpperRegex(Prop(c, "code"))
    /\ Prop(c, "name") # <<>>

\* (c) => /^[A-Z]{2}$/.test(c.code) && c.name && c.code !== 'XK'
FilterCountry(c) ==
    /\ TwoUpperRegex(Prop(c, "code"))
    /\ Prop(c, "name") # <<>>
    /\ Prop(c, "code") # <<"X","K">>

RECURSIVE SelectSeqRec(_, _)
SelectSeqRec(s, i) ==
    IF i > Len(s) THEN <<>>
    ELSE (IF FilterCountry(s[i]) THEN <<s[i]>> ELSE <<>>) \o SelectSeqRec(s, i + 1)

\* Collation weights of String.prototype.localeCompare (root collation): the
\* primary weight orders space, then other punctuation, then digits, then the
\* letters without regard to case; the tertiary weight puts lower before upper case.
PrimaryWeight(c) ==
    CASE c = " " -> 0
      [] IsDigit(c) -> 2 + DigitValue(c)
      [] IsUpperLetter(c) \/ IsLowerLetter(c) -> 20 + LetterIndex(c)
      [] OTHER -> 1

TertiaryWeight(c) == IF IsUpperLetter(c) THEN 1 ELSE 0

RECURSIVE LexCompare(_, _)
LexCompare(a, b) ==
    CASE a = <<>> /\ b = <<>> -> 0
      [] a = <<>> /\ b # <<>> -> -1
      [] a # <<>> /\ b = <<>> -> 1
      [] OTHER -> IF Head(a) < Head(b) THEN -1
                  ELSE IF Head(a) > Head(b) THEN 1
                  ELSE LexCompare(Tail(a), Tail(b))

localeCompare(a, b) ==
    LET p == LexCompare([i \in DOMAIN a |-> PrimaryWeight(a[i])],
                        [i \in DOMAIN b |-> PrimaryWeight(b[i])])
    IN  IF p # 0 THEN p
        ELSE LexCompare([i \in DOMAIN a |-> TertiaryWeight(a[i])],
                        [i \in DOMAIN b |-> TertiaryWeight(b[i])])

\* The comparator with its operands exchanged.
CompareByNameReversed(a, b) == localeCompare(Prop(b, "name"), Prop(a, "name"))

\* (a, b) => a.name.localeCompare(b.name)
CompareByName(a, b) == localeCompare(Prop(a, "name"), Prop(b, "name"))

\* Array.prototype.sort is stable: x goes behind every element that does not
\* compare greater than it.
RECURSIVE InsertSorted(_, _)
InsertSorted(sorted, x) ==
    IF sorted = <<>> THEN <<x>>
    ELSE IF CompareByName(Head(sorted), x) <= 0
         THEN <<Head(sorted)>> \o InsertSorted(Tail(sorted), x)
         ELSE <<x>> \o sorted

\* No sort at all: the records stay in their order of arrival.
SortByNameUnsorted(s) == s

RECURSIVE SortByName(_)
SortByName(s) ==
    IF s = <<>> THEN <<>>
    ELSE InsertSorted(SortByName(SubSeq(s, 1, Len(s) - 1)), s[Len(s)])

\* data.map(...).filter(...).sort(...)
fetchCountries(d) ==
    SortByName(SelectSeqRec([i \in DOMAIN d |-> MapCountry(d[i])], 1))

\* JSON.stringify(items, null, 2): every object with its own properties, in
\* insertion order; the document is modelled by the array it denotes.
JsonStringify(items) ==
    [i \in DOMAIN items |->
        [j \in DOMAIN items[i] |-> <<items[i][j][1], items[i][j][2]>>]]

(***************************************************************************)
(* parseArgs.                                                              *)
(***************************************************************************)
DefaultOpts ==
    [svg |-> FALSE, png |-> FALSE, json |-> TRUE, both |-> FALSE, limit |-> 0,
     noFlags |-> FALSE]

\* toBool: no value means true; 'false', '0' and 'no' in any case mean false;
\* any other value is Boolean(x), false for the empty string alone.
toBool(x) ==
    IF IsNullish(x) THEN TRUE
    ELSE LET s == toLowerCase(String(x))
         IN  IF s = <<"f","a","l","s","e">> \/ s = <<"0">> \/ s = <<"n","o">>
             THEN FALSE
             ELSE Truthy(x)

RECURSIVE DecimalValue(_)
DecimalValue(s) ==
    IF s = <<>> THEN 0
    ELSE 10 * DecimalValue(SubSeq(s, 1, Len(s) - 1)) + DigitValue(s[Len(s)])

AllDigits(s) == s # <<>> /\ \A i \in DOMAIN s : IsDigit(s[i])

\* Number(s) of a string: 0 for the empty string, the value of a decimal
\* integer literal with an optional sign, NaN for every other string over the
\* characters of the model.
StringToNumber(s) ==
    CASE s = <<>> -> [nan |-> FALSE, n |-> 0]
      [] AllDigits(s) -> [nan |-> FALSE, n |-> DecimalValue(s)]
      [] Len(s) > 1 /\ s[1] = "-" /\ AllDigits(Tail(s)) ->
            [nan |-> FALSE, n |-> 0 - DecimalValue(Tail(s))]
      [] Len(s) > 1 /\ s[1] = "+" /\ AllDigits(Tail(s)) ->
            [nan |-> FALSE, n |-> DecimalValue(Tail(s))]
      [] OTHER -> [nan |-> TRUE, n |-> 0]

\* Number(val ?? (args[++i] || 0)) || 0, with i the 1-based index of '--limit'.
LimitValue(a, i, val) ==
    LET num == IF ~IsNullish(val) THEN StringToNumber(val.s)
               ELSE IF i + 1 <= Len(a) /\ a[i + 1] # <<>>
                    THEN StringToNumber(a[i + 1])
                    ELSE [nan |-> FALSE, n |-> 0]
    IN  IF num.nan THEN 0 ELSE num.n

\* One pass of the for loop at index i (1-based), then the rest of the loop.
RECURSIVE parseLoop(_, _, _)
parseLoop(a, i, o) ==
    IF i > Len(a) THEN o
    ELSE
      LET hasEq == includes(a[i], "=")
          parts == split(a[i], "=")
          k == IF hasEq THEN parts[1] ELSE a[i]
          val == IF hasEq THEN Str(parts[2]) ELSE Null
      IN  CASE k = <<"-","-","s","v","g">> ->
                 parseLoop(a, i + 1, [o EXCEPT !.svg = toBool(val)])
            [] k = <<"-","-","p","n","g">> ->
                 parseLoop(a, i + 1, [o EXCEPT !.png = toBool(val)])
            [] k = <<"-","-","b","o","t","h">> ->
                 parseLoop(a, i + 1, [o EXCEPT !.both = toBool(val)])
            [] k = <<"-","-","n","o","-","f","l","a","g","s">> ->
                 parseLoop(a, i + 1,
                     [o EXCEPT !.noFlags = TRUE, !.svg = FALSE, !.png = FALSE,
                               !.both = FALSE])
            [] k = <<"-","-","o","n","l","y","=","j","s","o","n">> ->
                 parseLoop(a, i + 1,
                     [o EXCEPT !.json = TRUE, !.noFlags = TRUE, !.svg = FALSE,
                               !.png = FALSE, !.both = FALSE])
            [] k = <<"-","-","n","o","-","j","s","o","n">> ->
                 parseLoop(a, i + 1, [o EXCEPT !.json = FALSE])
            [] k = <<"-","-","j","s","o","n">> ->
                 parseLoop(a, i + 1, [o EXCEPT !.json = toBool(val)])
            [] k = <<"-","-","l","i","m","i","t">> ->
                 parseLoop(a, (IF IsNullish(val) THEN i + 1 ELSE i) + 1,
                     [o EXCEPT !.limit = LimitValue(a, i, val)])
            [] OTHER -> parseLoop(a, i + 1, o)

\* The default after the loop: svg only.
DefaultToSvg(o) ==
    IF ~o.noFlags /\ ~o.svg /\ ~o.png /\ ~o.both THEN [o EXCEPT !.svg = TRUE] ELSE o

parseArgs(a) == DefaultToSvg(parseLoop(a, 1, DefaultOpts))

(***************************************************************************)
(* Paths, URLs and the network.                                            *)
(***************************************************************************)
ASSETS == "assets"
FLAGS_DIR == "assets/flags"
FLAGCDN_BASE == "https://flagcdn.com"
FLAGSAPI_BASE == "https://flagsapi.com"

\* path.join(dir, name)
PathJoin(dir, name) == [dir |-> dir, base |-> name]

COUNTRIES_JSON == PathJoin(ASSETS, <<"c","o","u","n","t","r","i","e","s",".","j","s","o","n">>)

SvgName(lc) == lc \o <<".","s","v","g">>
PngName(lc) == lc \o <<".","p","n","g">>

svgUrl(code) == [base |-> FLAGCDN_BASE, path |-> <<"/">> \o SvgName(toLowerCase(code))]

pngUrl(code, size, style) ==
    [base |-> FLAGSAPI_BASE,
     path |-> <<"/">> \o code \o <<"/">> \o style \o <<"/">> \o size
              \o <<".","p","n","g">>]

\* mkdir(dir, { recursive: true }): the directory and its missing parents.
ensureDir(ds, dir) == ds \cup (IF dir = FLAGS_DIR THEN {ASSETS, FLAGS_DIR} ELSE {dir})

\* What fetch can settle with: a rejection, or a response with ok and type.
Responses ==
    { [thrown |-> TRUE, ok |-> FALSE, type |-> "error"],
      [thrown |-> FALSE, ok |-> TRUE, type |-> "basic"],
      [thrown |-> FALSE, ok |-> FALSE, type |-> "basic"],
      [thrown |-> FALSE, ok |-> FALSE, type |-> "opaque"] }

\* download throws when fetch rejects or on !res.ok && res.type !== 'opaque'.
DownloadThrows(res) == res.thrown \/ (~res.ok /\ res.type # "opaque")

\* fetchCountries throws when fetch rejects or on !res.ok.
FetchCountriesThrows(res) == res.thrown \/ ~res.ok

(***************************************************************************)
(* downloadFlags' locals.                                                  *)
(***************************************************************************)
dlSvg(o) == o.svg \/ o.both
dlPng(o) == o.png \/ o.both

\* countries.map((c) => c.code)
Codes(cs) == [i \in DOMAIN cs |-> Prop(cs[i], "code")]

\* The list without the cap.
FlagListUncapped(codes, o) == codes

\* limit > 0 ? codes.slice(0, limit) : codes
FlagList(codes, o) ==
    IF o.limit > 0
    THEN SubSeq(codes, 1, IF o.limit < Len(codes) THEN o.limit ELSE Len(codes))
    ELSE codes

list == FlagList(Codes(countries), opts)

\* The guard of main without its test of noFlags.
WantsFlagsIgnoresNoFlags(o) == o.svg \/ o.png \/ o.both

\* !opts.noFlags && (opts.svg || opts.png || opts.both)
WantsFlags(o) == ~o.noFlags /\ (o.svg \/ o.png \/ o.both)

(***************************************************************************)
(* main, one action per step.                                              *)
(***************************************************************************)
envUnchanged == UNCHANGED <<swVars, appVars, args, data, files0>>

ParseArgs ==
    /\ pc = "start"
    /\ opts' = parseArgs(args)
    /\ pc' = "parsed"
    /\ UNCHANGED <<countries, dirs, files, jsonDoc, written, idx, ok, fail, attempts>>
    /\ envUnchanged

\* fetchCountries rejects; main().catch logs and exits with status 1.
FetchCountriesFail ==
    /\ pc = "parsed"
    /\ \E res \in Responses : FetchCountriesThrows(res)
    /\ pc' = "exit1"
    /\ UNCHANGED <<opts, countries, dirs, files, jsonDoc, written, idx, ok, fail, attempts>>
    /\ envUnchanged

FetchCountriesOk ==
    /\ pc = "parsed"
    /\ \E res \in Responses : ~FetchCountriesThrows(res)
    /\ countries' = fetchCountries(data)
    /\ pc' = "fetched"
    /\ UNCHANGED <<opts, dirs, files, jsonDoc, written, idx, ok, fail, attempts>>
    /\ envUnchanged

\* if (opts.json) await saveCountriesJson(countries)
SaveCountriesJson ==
    /\ pc = "fetched"
    /\ opts.json
    /\ dirs' = ensureDir(dirs, ASSETS)
    /\ files' = files \cup {COUNTRIES_JSON}
    /\ jsonDoc' = JsonStringify(countries)
    /\ written' = written \cup {COUNTRIES_JSON}
    /\ pc' = "saved"
    /\ UNCHANGED <<opts, countries, idx, ok, fail, attempts>>
    /\ envUnchanged

SkipCountriesJson ==
    /\ pc = "fetched"
    /\ ~opts.json
    /\ pc' = "saved"
    /\ UNCHANGED <<opts, countries, dirs, files, jsonDoc, written, idx, ok, fail, attempts>>
    /\ envUnchanged

\* The guard of main fails: downloadFlags is not called.
SkipFlags ==
    /\ pc = "saved"
    /\ ~WantsFlags(opts)
    /\ pc' = "done"
    /\ UNCHANGED <<opts, countries, dirs, files, jsonDoc, written, idx, ok, fail, attempts>>
    /\ envUnchanged

\* downloadFlags up to the loop: ensureDir(FLAGS_DIR), ok = 0, fail = 0.
StartFlags ==
    /\ pc = "saved"
    /\ WantsFlags(opts)
    /\ dirs' = ensureDir(dirs, FLAGS_DIR)
    /\ idx' = 1
    /\ ok' = 0
    /\ fail' = 0
    /\ pc' = "svg"
    /\ UNCHANGED <<opts, countries, files, jsonDoc, written, attempts>>
    /\ envUnchanged

\* The part of one iteration for one format: wanted is dlSvg or dlPng, out
\* the destination, url what download is called with, next the step after.
FormatNotSelected(wanted, next, nextIdx) ==
    /\ ~wanted
    /\ pc' = next
    /\ idx' = nextIdx
    /\ UNCHANGED <<opts, countries, dirs, files, jsonDoc, written, ok, fail, attempts>>
    /\ envUnchanged

FormatExists(wanted, out, next, nextIdx) ==
    /\ wanted
    /\ out \in files
    /\ pc' = next
    /\ idx' = nextIdx
    /\ UNCHANGED <<opts, countries, dirs, files, jsonDoc, written, ok, fail, attempts>>
    /\ envUnchanged

FormatDownloadOk(wanted, out, url, next, nextIdx) ==
    /\ wanted
    /\ out \notin files
    /\ \E res \in Responses : ~DownloadThrows(res)
    /\ files' = files \cup {out}
    /\ written' = written \cup {out}
    /\ ok' = ok + 1
    /\ attempts' = Append(attempts, [pos |-> idx, code |-> list[idx], out |-> out,
                                     url |-> url, ok |-> TRUE])
    /\ pc' = next
    /\ idx' = nextIdx
    /\ UNCHANGED <<opts, countries, dirs, jsonDoc, fail>>
    /\ envUnchanged

\* A failed download that ends the loop instead of going on.
FormatDownloadFailAborts(wanted, out, url, next, nextIdx) ==
    /\ wanted
    /\ out \notin files
    /\ \E res \in Responses : DownloadThrows(res)
    /\ fail' = fail + 1
    /\ attempts' = Append(attempts, [pos |-> idx, code |-> list[idx], out |-> out,
                                     url |-> url, ok |-> FALSE])
    /\ pc' = "done"
    /\ UNCHANGED <<opts, countries, dirs, files, jsonDoc, written, ok, idx>>
    /\ envUnchanged

FormatDownloadFail(wanted, out, url, next, nextIdx) ==
    /\ wanted
    /\ out \notin files
    /\ \E res \in Responses : DownloadThrows(res)
    /\ fail' = fail + 1
    /\ attempts' = Append(attempts, [pos |-> idx, code |-> list[idx], out |-> out,
                                     url |-> url, ok |-> FALSE])
    /\ pc' = next
    /\ idx' = nextIdx
    /\ UNCHANGED <<opts, countries, dirs, files, jsonDoc, written, ok>>
    /\ envUnchanged

InLoop(at) == pc = at /\ idx <= Len(list)

SvgOut == PathJoin(FLAGS_DIR, SvgName(toLowerCase(list[idx])))
PngOut == PathJoin(FLAGS_DIR, PngName(toLowerCase(list[idx])))
PngUrlOfCode == pngUrl(list[idx], <<"5","1","2">>, <<"f","l","a","t">>)

SvgNotSelected == InLoop("svg") /\ FormatNotSelected(dlSvg(opts), "png", idx)
SvgExists == InLoop("svg") /\ FormatExists(dlSvg(opts), SvgOut, "png", idx)
SvgDownloadOk ==
    InLoop("svg") /\ FormatDownloadOk(dlSvg(opts), SvgOut, svgUrl(list[idx]), "png", idx)
SvgDownloadFail ==
    InLoop("svg") /\ FormatDownloadFail(dlSvg(opts), SvgOut, svgUrl(list[idx]), "png", idx)

PngNotSelected == InLoop("png") /\ FormatNotSelected(dlPng(opts), "svg", idx + 1)
PngExists == InLoop("png") /\ FormatExists(dlPng(opts), PngOut, "svg", idx + 1)
PngDownloadOk ==
    InLoop("png") /\ FormatDownloadOk(dlPng(opts), PngOut, PngUrlOfCode, "svg", idx + 1)
PngDownloadFail ==
    InLoop("png") /\ FormatDownloadFail(dlPng(opts), PngOut, PngUrlOfCode, "svg", idx + 1)

\* The loop is over: the totals are logged and main returns.
FinishFlags ==
    /\ pc = "svg"
    /\ idx > Len(list)
    /\ pc' = "done"
    /\ UNCHANGED <<opts, countries, dirs, files, jsonDoc, written, idx, ok, fail, attempts>>
    /\ envUnchanged

NextCountries ==
    \/ ParseArgs
    \/ FetchCountriesFail
    \/ FetchCountriesOk
    \/ SaveCountriesJson
    \/ SkipCountriesJson

NextFlags ==
    \/ SkipFlags
    \/ StartFlags
    \/ SvgNotSelected
    \/ SvgExists
    \/ SvgDownloadOk
    \/ SvgDownloadFail
    \/ PngNotSelected
    \/ PngExists
    \/ PngDownloadOk
    \/ PngDownloadFail
    \/ FinishFlags

NextMain == NextCountries \/ NextFlags

(***************************************************************************)
(* Initial states: the command line, the upstream body and the disk.       *)
(***************************************************************************)
SeqsUpTo(S, n) == UNION {[1..k -> S] : k \in 0..n}

\* Directories that exist because the files in them do.
DirsOf(fs) ==
    UNION {IF f.dir = FLAGS_DIR THEN {ASSETS, FLAGS_DIR} ELSE {f.dir} : f \in fs}

SwIdle ==
    /\ swCache = {}
    /\ swNet = <<>>
    /\ swLast = "none"

AppIdle ==
    /\ appPc = "off"
    /\ appSession = 0
    /\ appLocal = "absent"
    /\ appStore = <<>>
    /\ appList = <<>>
    /\ appReqs = <<>>

RunWith(at, argLists, bodies, disks) ==
    /\ pc = at
    /\ args \in argLists
    /\ data \in bodies
    /\ files \in disks
    /\ files0 = files
    /\ dirs = DirsOf(files)
    /\ opts = DefaultOpts
    /\ countries = <<>>
    /\ jsonDoc = <<>>
    /\ written = {}
    /\ idx = 1
    /\ ok = 0
    /\ fail = 0
    /\ attempts = <<>>

InitRun(argLists, bodies, disks) ==
    /\ RunWith("start", argLists, bodies, disks)
    /\ SwIdle
    /\ AppIdle

\* Upstream records: cca2 missing, lower case, valid, the excluded code, one
\* letter, three letters, with a digit; name missing, without common, empty,
\* and names that differ in case and in their first letter.
Cca2Values ==
    { Undefined, Str(<<"u","s">>), Str(<<"U","S">>), Str(<<"F","R">>),
      Str(<<"X","K">>), Str(<<"x","k">>), Str(<<"U">>), Str(<<"U","S","A">>),
      Str(<<"U","1">>) }

France == <<"F","r","a","n","c","e">>
UnitedStates == <<"U","n","i","t","e","d"," ","S","t","a","t","e","s">>

NameValues ==
    { [t |-> "undefined", common |-> Undefined],
      [t |-> "object", common |-> Undefined],
      [t |-> "object", common |-> Str(<<>>)],
      [t |-> "object", common |-> Str(France)],
      [t |-> "object", common |-> Str(toLowerCase(France))],
      [t |-> "object", common |-> Str(UnitedStates)] }

Upstream == [cca2 : Cca2Values, name : NameValues, region : {Str(<<"E","U">>)}]

NoArgs == <<>>
ArgNoJson == <<"-","-","n","o","-","j","s","o","n">>

InitCountries ==
    InitRun({NoArgs, <<ArgNoJson>>}, SeqsUpTo(Upstream, MaxData), {{}})

SpecCountries == InitCountries /\ [][NextCountries]_vars

(***************************************************************************)
(* What the claims are stated with.                                        *)
(***************************************************************************)
UpperSet == {UpperLetters[i] : i \in DOMAIN UpperLetters}

Fetched == pc \notin {"start", "parsed", "exit1"}

\* The upstream record has a string cca2 that is two letters A-Z once upper
\* cased and not XK, and a non-empty common name.
InputPasses(c) ==
    /\ c.cca2.t = "string"
    /\ Len(c.cca2.s) = 2
    /\ \A i \in 1..2 : toUpperCase(c.cca2.s)[i] \in UpperSet
    /\ toUpperCase(c.cca2.s) # <<"X","K">>
    /\ c.name.t = "object"
    /\ c.name.common.t = "string"
    /\ c.name.common.s # <<>>

\* C1: every record fetchCountries returns has a code of exactly two letters
\* A-Z, a non-empty name and a code other than XK, and every upstream record
\* whose upper-cased cca2 and name meet these conditions is in the output.
C1_FilterSoundComplete ==
    Fetched =>
        /\ \A i \in DOMAIN countries :
              /\ Len(Prop(countries[i], "code")) = 2
              /\ \A k \in 1..2 : Prop(countries[i], "code")[k] \in UpperSet
              /\ Prop(countries[i], "name") # <<>>
              /\ Prop(countries[i], "code") # <<"X","K">>
        /\ \A j \in DOMAIN data :
              InputPasses(data[j]) =>
                  \E i \in DOMAIN countries :
                      /\ Prop(countries[i], "code") = toUpperCase(data[j].cca2.s)
                      /\ Prop(countries[i], "name") = data[j].name.common.s

\* A lower-case code was kept and another record was dropped.
C1_Witness ==
    /\ pc = "fetched"
    /\ Len(countries) >= 1
    /\ Len(countries) < Len(data)
    /\ \E j \in DOMAIN data : data[j].cca2 = Str(<<"u","s">>) /\ InputPasses(data[j])

\* C3: after a successful fetch with JSON output enabled, countries.json holds
\* objects with exactly the properties code and name, as many of each
\* (code, name) as upstream records that pass the filter, in non-decreasing
\* order of name under localeCompare.
C3_PersistedSimplifiedSorted ==
    (pc = "saved" /\ opts.json) =>
        /\ COUNTRIES_JSON \in written
        /\ COUNTRIES_JSON \in files
        /\ \A i \in DOMAIN jsonDoc :
              /\ Len(jsonDoc[i]) = 2
              /\ {jsonDoc[i][k][1] : k \in 1..2} = {"code", "name"}
        /\ Len(jsonDoc) = Cardinality({j \in DOMAIN data : InputPasses(data[j])})
        /\ \A j \in DOMAIN data :
              InputPasses(data[j]) =>
                  Cardinality({i \in DOMAIN jsonDoc :
                                  /\ Prop(jsonDoc[i], "code") = toUpperCase(data[j].cca2.s)
                                  /\ Prop(jsonDoc[i], "name") = data[j].name.common.s})
                  = Cardinality({k \in DOMAIN data :
                                  /\ InputPasses(data[k])
                                  /\ toUpperCase(data[k].cca2.s) = toUpperCase(data[j].cca2.s)
                                  /\ data[k].name.common.s = data[j].name.common.s})
        /\ \A i \in 1..(Len(jsonDoc) - 1) :
              localeCompare(Prop(jsonDoc[i], "name"), Prop(jsonDoc[i + 1], "name")) <= 0

\* Two records were persisted in the opposite order of their arrival.
C3_Witness ==
    /\ pc = "saved"
    /\ opts.json
    /\ Len(data) = 2
    /\ Len(jsonDoc) = 2
    /\ Prop(jsonDoc[1], "name") = data[2].name.common.s
    /\ Prop(jsonDoc[1], "name") # Prop(jsonDoc[2], "name")

(***************************************************************************)
(* The sample of the specification: AA, US / United States, FR / France.   *)
(***************************************************************************)
SampleRecords ==
    [cca2 : {Str(<<"A","A">>)}, name : NameValues, region : {Str(<<"E","U">>)}]
    \cup [cca2 : {Str(<<"U","S">>)}, name : {[t |-> "object", common |-> Str(UnitedStates)]},
          region : {Str(<<"N","A">>)}]
    \cup [cca2 : {Str(<<"F","R">>)}, name : {[t |-> "object", common |-> Str(France)]},
          region : {Str(<<"E","U">>)}]

InitSample == InitRun({NoArgs, <<ArgNoJson>>}, [1..3 -> SampleRecords], {{}})

SpecSample == InitSample /\ [][NextCountries]_vars

\* The body holds one record of each of the three sample codes.
IsSample(d) ==
    /\ Len(d) = 3
    /\ \A code \in {<<"A","A">>, <<"U","S">>, <<"F","R">>} :
          \E i \in 1..3 : d[i].cca2.s = code

SampleAA(d) == d[CHOOSE i \in 1..3 : d[i].cca2.s = <<"A","A">>]

HasName(c) == c.name.t = "object" /\ c.name.common.t = "string" /\ c.name.common.s # <<>>

ItemFR == << <<"code", <<"F","R">> >>, <<"name", France>> >>
ItemUS == << <<"code", <<"U","S">> >>, <<"name", UnitedStates>> >>

\* C2 as stated: the sample always yields exactly [FR France, US United States].
C2_SampleAsStated ==
    (IsSample(data) /\ Fetched) => countries = <<ItemFR, ItemUS>>

\* C2, amended: the sample yields exactly [FR France, US United States] when
\* its AA record has no non-empty name; with a name the AA record is kept, and
\* the three records come out in non-decreasing order of name.
C2_SampleAmended ==
    (IsSample(data) /\ Fetched) =>
        IF ~HasName(SampleAA(data))
        THEN countries = <<ItemFR, ItemUS>>
        ELSE /\ Len(countries) = 3
             /\ {countries[i] : i \in 1..3} =
                   { ItemFR, ItemUS,
                     << <<"code", <<"A","A">> >>,
                        <<"name", SampleAA(data).name.common.s>> >> }
             /\ \A i \in 1..2 :
                   localeCompare(Prop(countries[i], "name"),
                                 Prop(countries[i + 1], "name")) <= 0

\* The sample in the order AA, US, FR came out as [FR, US].
C2_Witness ==
    /\ pc = "fetched"
    /\ IsSample(data)
    /\ data[1].cca2.s = <<"A","A">>
    /\ data[2].cca2.s = <<"U","S">>
    /\ countries = <<ItemFR, ItemUS>>

(***************************************************************************)
(* Command lines.                                                          *)
(***************************************************************************)
ArgSvg == <<"-","-","s","v","g">>
ArgPng == <<"-","-","p","n","g">>
ArgBoth == <<"-","-","b","o","t","h">>
ArgNoFlags == <<"-","-","n","o","-","f","l","a","g","s">>
ArgOnlyJson == <<"-","-","o","n","l","y","=","j","s","o","n">>
ArgLimit == <<"-","-","l","i","m","i","t">>
ArgLimitEq2 == <<"-","-","l","i","m","i","t","=","2">>
ArgLimitEqX == <<"-","-","l","i","m","i","t","=","x">>
ArgTwo == <<"2">>
ArgSvgEqNo == <<"-","-","s","v","g","=","n","o">>

ArgTokens ==
    { ArgSvg, ArgPng, ArgBoth, ArgNoFlags, ArgOnlyJson, ArgNoJson, ArgLimit,
      ArgLimitEq2, ArgLimitEqX, ArgTwo, ArgSvgEqNo }

Chad == <<"C","h","a","d">>

UpstreamRecord(code, name) ==
    [cca2 |-> Str(code), name |-> [t |-> "object", common |-> Str(name)],
     region |-> Str(<<"E","U">>)]

\* Three countries that arrive out of name order, and a body of one.
BodyThree ==
    << UpstreamRecord(<<"U","S">>, UnitedStates), UpstreamRecord(<<"T","D">>, Chad),
       UpstreamRecord(<<"F","R">>, France) >>

BodyOne == << UpstreamRecord(<<"f","r">>, France) >>

FlagFile(lc, ext) == PathJoin(FLAGS_DIR, lc \o <<".">> \o ext)

\* An empty disk, and one that holds both flags of France.
DisksArgs ==
    { {}, {FlagFile(<<"f","r">>, <<"s","v","g">>), FlagFile(<<"f","r">>, <<"p","n","g">>)} }

InitArgs == InitRun(SeqsUpTo(ArgTokens, MaxArgs), {BodyThree, BodyOne}, DisksArgs)

SpecArgs == InitArgs /\ [][NextMain]_vars

\* The last three characters of a file name.
ExtOf(out) == SubSeq(out.base, Len(out.base) - 2, Len(out.base))

Has(a, tok) == \E i \in DOMAIN a : a[i] = tok

\* The arguments that stand for themselves: the one behind a value-less
\* --limit is that option's value.
RECURSIVE OwnArgs(_, _)
OwnArgs(a, i) ==
    IF i > Len(a) THEN <<>>
    ELSE <<a[i]>> \o OwnArgs(a, IF a[i] = ArgLimit THEN i + 2 ELSE i + 1)

\* With the arguments a read as format selection: every download made is of a
\* selected format, no download is made under --no-flags, and at the end of a
\* run the first flag of each selected format has been attempted.
FormatsAsSelected(a) ==
    LET none == Has(a, ArgNoFlags)
        wantSvg == ~none /\ (Has(a, ArgSvg) \/ Has(a, ArgBoth)
                             \/ ~(Has(a, ArgSvg) \/ Has(a, ArgPng) \/ Has(a, ArgBoth)))
        wantPng == ~none /\ (Has(a, ArgPng) \/ Has(a, ArgBoth))
    IN  /\ \A k \in DOMAIN attempts :
              /\ ExtOf(attempts[k].out) = <<"s","v","g">> => wantSvg
              /\ ExtOf(attempts[k].out) = <<"p","n","g">> => wantPng
              /\ ExtOf(attempts[k].out) \in {<<"s","v","g">>, <<"p","n","g">>}
        /\ (pc = "done" /\ files0 = {}) =>
              /\ wantSvg => \E k \in DOMAIN attempts :
                                attempts[k].pos = 1 /\ ExtOf(attempts[k].out) = <<"s","v","g">>
              /\ wantPng => \E k \in DOMAIN attempts :
                                attempts[k].pos = 1 /\ ExtOf(attempts[k].out) = <<"p","n","g">>

\* The command line holds no format argument with a value and no --only=json.
PlainFormats(a) == ~Has(a, ArgSvgEqNo) /\ ~Has(a, ArgOnlyJson)

\* C8 as stated: the formats downloaded are the ones selected, and none is
\* when --no-flags appears anywhere in the argument list.
C8_FormatsAsStated == PlainFormats(args) => FormatsAsSelected(args)

\* C8, amended: the same, over the arguments that stand for themselves (an
\* argument behind a value-less --limit is consumed as its value).
C8_FormatsAmended == PlainFormats(args) => FormatsAsSelected(OwnArgs(args, 1))

\* --svg after --no-flags: the run ended without a download.
C8_Witness ==
    /\ pc = "done"
    /\ args = <<ArgNoFlags, ArgSvg>>
    /\ attempts = <<>>
    /\ Len(countries) = 3

\* C5: with --only=json on the command line parseArgs returns noFlags true
\* and svg, png and both false, no flag is downloaded, and a run that ends
\* has written countries.json.
C5_OnlyJsonAsStated ==
    (Has(args, ArgOnlyJson) /\ pc # "start") =>
        /\ opts.noFlags
        /\ ~opts.svg
        /\ ~opts.png
        /\ ~opts.both
        /\ pc \notin {"svg", "png"}
        /\ attempts = <<>>
        /\ pc = "done" => COUNTRIES_JSON \in written

\* The name-sorted codes of the two bodies.
SortedCodes(d) ==
    IF d = BodyThree THEN << <<"T","D">>, <<"F","R">>, <<"U","S">> >> ELSE << <<"F","R">> >>

IsLimitArg(tok) ==
    \/ tok = ArgLimit
    \/ Len(tok) > 7 /\ SubSeq(tok, 1, 8) = ArgLimit \o <<"=">>

LimitArgsAt(a) == {i \in DOMAIN a : IsLimitArg(a[i])}

\* The one limit argument of the command line is --limit=2 or --limit 2.
LimitIsTwo(a) ==
    /\ Cardinality(LimitArgsAt(a)) = 1
    /\ \E i \in LimitArgsAt(a) :
          \/ a[i] = ArgLimitEq2
          \/ a[i] = ArgLimit /\ i < Len(a) /\ a[i + 1] = ArgTwo

\* No limit argument, or one whose value is missing or not a number.
LimitIsNone(a) ==
    \/ LimitArgsAt(a) = {}
    \/ /\ Cardinality(LimitArgsAt(a)) = 1
       /\ \E i \in LimitArgsAt(a) :
             \/ a[i] = ArgLimitEqX
             \/ a[i] = ArgLimit /\ (i = Len(a) \/ ~AllDigits(a[i + 1]))

\* Downloads were made for exactly the first n of the name-sorted codes (for
\* those whose file was not there), and countries.json holds every code.
AttemptsCover(n) ==
    LET sorted == SortedCodes(data)
        m == IF n < Len(sorted) THEN n ELSE Len(sorted)
    IN  /\ \A k \in DOMAIN attempts :
              /\ attempts[k].pos \in 1..m
              /\ attempts[k].code = sorted[attempts[k].pos]
        /\ (pc = "done" /\ WantsFlags(opts)) =>
              \A q \in 1..m :
                  (\A f \in files0 : SubSeq(f.base, 1, 2) # toLowerCase(sorted[q])) =>
                      \E k \in DOMAIN attempts : attempts[k].pos = q
        /\ (pc = "done" /\ opts.json) =>
              /\ COUNTRIES_JSON \in written
              /\ [i \in DOMAIN jsonDoc |-> Prop(jsonDoc[i], "code")] = sorted

\* C9: with --limit=2 or --limit 2 the downloads are those of the first two
\* codes of the name-sorted list (of all when there are fewer) while
\* countries.json holds the full list; without a limit, or with one that is
\* missing or not a number, every code is attempted.
C9_LimitCapsDownloads ==
    /\ LimitIsTwo(args) => AttemptsCover(2)
    /\ LimitIsNone(args) => AttemptsCover(Len(SortedCodes(data)))

\* --limit 2 over three countries: two downloads, three records on disk.
C9_Witness ==
    /\ pc = "done"
    /\ args = <<ArgLimit, ArgTwo>>
    /\ Len(attempts) = 2
    /\ Len(jsonDoc) = 3
    /\ Len(countries) = 3

(***************************************************************************)
(* Runs over a disk that may hold assets already.                          *)
(***************************************************************************)
RunTokens == {ArgBoth, ArgPng, ArgNoJson, ArgNoFlags, ArgLimitEq2}

\* Two upstream records of one code.
BodyTwice ==
    << UpstreamRecord(<<"F","R">>, France), UpstreamRecord(<<"f","r">>, toLowerCase(France)) >>

AssetFiles ==
    {FlagFile(lc, ext) : lc \in {<<"t","d">>, <<"f","r">>, <<"u","s">>},
                         ext \in {<<"s","v","g">>, <<"p","n","g">>}}
    \cup {COUNTRIES_JSON}

Init == InitRun(SeqsUpTo(RunTokens, MaxRunArgs), {BodyThree, BodyTwice}, SUBSET AssetFiles)

Spec == Init /\ [][NextMain]_vars

\* C4: a file that was on disk before the run is neither downloaded nor
\* written by it.
C4_ExistingFilesSkipped ==
    \A f \in files0 :
        /\ f \notin written
        /\ \A k \in DOMAIN attempts : attempts[k].out # f

InFlags == pc \in {"svg", "png"} \/ (pc = "done" /\ WantsFlags(opts))

SelectedExts ==
    (IF dlSvg(opts) THEN {<<"s","v","g">>} ELSE {})
    \cup (IF dlPng(opts) THEN {<<"p","n","g">>} ELSE {})

\* The loop has passed the step of position q for the format.
Processed(q, ext) ==
    \/ pc = "done"
    \/ q < idx
    \/ q = idx /\ pc = "png" /\ ext = <<"s","v","g">>

\* The file of position q was there when the loop reached it.
ExistedWhenReached(q, ext) ==
    LET out == FlagFile(toLowerCase(list[q]), ext)
    IN  \/ out \in files0
        \/ \E k \in DOMAIN attempts :
              attempts[k].ok /\ attempts[k].out = out /\ attempts[k].pos < q

\* C10: in downloadFlags every position of the list and selected format whose
\* file is missing gets exactly one download whatever happened before, a
\* failed download leaves no file, the run goes on to the end of the list,
\* and ok + fail counts the downloads made.
C10_FailuresDoNotAbort ==
    /\ fail > 0 => pc # "exit1"
    /\ InFlags =>
        /\ ok + fail = Len(attempts)
        /\ ok = Cardinality({k \in DOMAIN attempts : attempts[k].ok})
        /\ fail = Cardinality({k \in DOMAIN attempts : ~attempts[k].ok})
        /\ \A k \in DOMAIN attempts :
              /\ attempts[k].pos \in DOMAIN list
              /\ ExtOf(attempts[k].out) \in SelectedExts
              /\ attempts[k].out =
                    FlagFile(toLowerCase(list[attempts[k].pos]), ExtOf(attempts[k].out))
        /\ \A q \in DOMAIN list : \A ext \in SelectedExts :
              Cardinality({k \in DOMAIN attempts :
                              attempts[k].pos = q /\ ExtOf(attempts[k].out) = ext})
              = IF Processed(q, ext) /\ ~ExistedWhenReached(q, ext) THEN 1 ELSE 0
        /\ \A f \in AssetFiles \ {COUNTRIES_JSON} :
              f \in files <=>
                  (f \in files0 \/ \E k \in DOMAIN attempts :
                                       attempts[k].ok /\ attempts[k].out = f)
        /\ pc = "done" => idx = Len(list) + 1

\* A download succeeded after an earlier one had failed, and the run ended.
C10_Witness ==
    /\ pc = "done"
    /\ \E j, k \in DOMAIN attempts : j < k /\ ~attempts[j].ok /\ attempts[k].ok
    /\ fail >= 1
    /\ ok >= 1

(***************************************************************************)
(* The service worker's cache layer.                                       *)
(***************************************************************************)
\* The requests the page makes: its own files, local and remote flag images,
\* and the remote country list.
Resources ==
    { [origin |-> "same", kind |-> "document", id |-> "index.html"],
      [origin |-> "same", kind |-> "image", id |-> "assets/flags/fr.svg"],
      [origin |-> "cross", kind |-> "image", id |-> "flagcdn.com/fr.svg"],
      [origin |-> "cross", kind |-> "image", id |-> "flagsapi.com/FR/flat/512.png"],
      [origin |-> "cross", kind |-> "data", id |-> "restcountries.com/v3.1/all"] }

\* Same-origin requests and images of any origin are served cache-first.
CacheFirst(req) == req.origin = "same" \/ req.kind = "image"

\* What the network can answer a request with: an opaque response only
\* across origins.
NetworkResponses(req) ==
    {res \in Responses : res.type = "opaque" => req.origin = "cross"}

\* A response that is stored: a successful one, or an opaque one.
Storable(res) == ~res.thrown /\ (res.ok \/ res.type = "opaque")

SwUnchanged == UNCHANGED <<runVars, appVars>>

\* The request is answered from the cache.
SwServeCached(req) ==
    /\ CacheFirst(req)
    /\ req \in swCache
    /\ swLast' = [req |-> req, from |-> "cache", stored |-> FALSE]
    /\ UNCHANGED <<swCache, swNet>>
    /\ SwUnchanged

\* Network-first: the request goes to the network although it is cached.
SwFetchAlways(req) ==
    /\ CacheFirst(req)
    /\ swNet[req] < MaxFetch
    /\ \E res \in NetworkResponses(req) :
          /\ swCache' = IF Storable(res) THEN swCache \cup {req} ELSE swCache
          /\ swLast' = [req |-> req, from |-> "network", stored |-> Storable(res)]
    /\ swNet' = [swNet EXCEPT ![req] = @ + 1]
    /\ SwUnchanged

\* A miss: the request goes to the network and a storable response is kept.
SwFetchAndStore(req) ==
    /\ CacheFirst(req)
    /\ req \notin swCache
    /\ swNet[req] < MaxFetch
    /\ \E res \in NetworkResponses(req) :
          /\ swCache' = IF Storable(res) THEN swCache \cup {req} ELSE swCache
          /\ swLast' = [req |-> req, from |-> "network", stored |-> Storable(res)]
    /\ swNet' = [swNet EXCEPT ![req] = @ + 1]
    /\ SwUnchanged

\* Any other request goes to the network and is not stored.
SwPassThrough(req) ==
    /\ ~CacheFirst(req)
    /\ swNet[req] < MaxFetch
    /\ swNet' = [swNet EXCEPT ![req] = @ + 1]
    /\ swLast' = [req |-> req, from |-> "network", stored |-> FALSE]
    /\ UNCHANGED swCache
    /\ SwUnchanged

SwServe == \E req \in Resources : SwServeCached(req)
SwFetch == \E req \in Resources : SwFetchAndStore(req)
SwPass == \E req \in Resources : SwPassThrough(req)

NextCache == SwServe \/ SwFetch \/ SwPass

InitCache ==
    /\ RunWith("off", {NoArgs}, {<<>>}, {{}})
    /\ AppIdle
    /\ swCache = {}
    /\ swNet = [r \in Resources |-> 0]
    /\ swLast = [req |-> CHOOSE r \in Resources : r.kind = "document",
                 from |-> "none", stored |-> FALSE]

SpecCache == InitCache /\ [][NextCache]_vars

\* C6: once the response to a same-origin or image request is in the cache
\* it stays there and no later step makes a network transfer for it; a
\* transfer is made only for a resource that is not in the cache, and a
\* response that can be stored (successful or opaque) is then in the cache.
C6_CachedNeverRefetched ==
    /\ [][\A r \in Resources :
            /\ (r \in swCache) => (r \in swCache' /\ swNet'[r] = swNet[r])
            /\ (swNet'[r] # swNet[r]) =>
                  /\ r \notin swCache
                  /\ swLast'.req = r
                  /\ swLast'.from = "network"
                  /\ (CacheFirst(r) /\ swLast'.stored) => r \in swCache']_vars
    /\ [](\A r \in swCache : CacheFirst(r) /\ swNet[r] >= 1)

\* An opaque-capable cross-origin image was fetched once, stored, and then
\* answered from the cache.
C6_Witness ==
    /\ swLast.from = "cache"
    /\ swLast.req.origin = "cross"
    /\ swLast.req.kind = "image"
    /\ swNet[swLast.req] = 1
    /\ swLast.req \in swCache

(***************************************************************************)
(* The application's country-list resolver.                                *)
(***************************************************************************)
\* The bundled assets/countries.json, as the prefetch tool writes it.
BundledList == JsonStringify(<<ItemFR, ItemUS>>)

\* The remote service is asked whatever the local source gave.
NeedsRemoteAlways(localStatus) == TRUE

\* The remote service is asked only when the local source failed.
NeedsRemote(localStatus) == localStatus # "present"

AppUnchanged == UNCHANGED <<runVars, swVars>>

\* A page load: the bundled file may be there, missing, or fail to load.
AppOpen ==
    /\ appPc \in {"off", "ready", "missing"}
    /\ appSession < MaxSessions
    /\ appSession' = appSession + 1
    /\ appLocal' \in {"present", "absent", "error"}
    /\ appPc' = "idle"
    /\ appList' = <<>>
    /\ UNCHANGED <<appStore, appReqs>>
    /\ AppUnchanged

\* The list is requested: the local source is tried first.
AppLoadLocal ==
    /\ appPc = "idle"
    /\ appReqs' = Append(appReqs, [session |-> appSession, to |-> "local",
                                   failed |-> appLocal # "present"])
    /\ IF NeedsRemote(appLocal)
       THEN appPc' = "remote" /\ UNCHANGED appList
       ELSE appPc' = "ready" /\ appList' = BundledList
    /\ UNCHANGED <<appSession, appLocal, appStore>>
    /\ AppUnchanged

\* The fallback answered: the simplified list is kept in localStorage.
AppLoadRemoteOk ==
    /\ appPc = "remote"
    /\ \E res \in Responses : ~FetchCountriesThrows(res)
    /\ appReqs' = Append(appReqs, [session |-> appSession, to |-> "remote", failed |-> FALSE])
    /\ appList' = JsonStringify(fetchCountries(data))
    /\ appStore' = JsonStringify(fetchCountries(data))
    /\ appPc' = "ready"
    /\ UNCHANGED <<appSession, appLocal>>
    /\ AppUnchanged

\* The fallback failed: the list is missing for this page load.
AppLoadRemoteFail ==
    /\ appPc = "remote"
    /\ \E res \in Responses : FetchCountriesThrows(res)
    /\ appReqs' = Append(appReqs, [session |-> appSession, to |-> "remote", failed |-> TRUE])
    /\ appPc' = "missing"
    /\ UNCHANGED <<appSession, appLocal, appStore, appList>>
    /\ AppUnchanged

NextResolver == AppOpen \/ AppLoadLocal \/ AppLoadRemoteOk \/ AppLoadRemoteFail

InitResolver ==
    /\ RunWith("off", {NoArgs}, SeqsUpTo(SampleRecords, MaxData), {{}})
    /\ SwIdle
    /\ AppIdle

SpecResolver == InitResolver /\ [][NextResolver]_vars

\* C7: while the bundled countries.json is present no request goes to the
\* remote country service, and a remote request is made only right after the
\* local source was tried, and failed, in the same page load.
C7_LocalBeforeRemote ==
    /\ \A k \in DOMAIN appReqs :
          appReqs[k].to = "remote" =>
              /\ k > 1
              /\ appReqs[k - 1].to = "local"
              /\ appReqs[k - 1].failed
              /\ appReqs[k - 1].session = appReqs[k].session
    /\ (appPc \in {"remote", "ready", "missing"} /\ appLocal = "present") =>
          /\ appPc = "ready"
          /\ appList = BundledList
          /\ \A k \in DOMAIN appReqs :
                appReqs[k].session = appSession => appReqs[k].to = "local"

\* A page load with the bundled file, after one that had to go remote.
C7_Witness ==
    /\ appPc = "ready"
    /\ appLocal = "present"
    /\ appSession = 2
    /\ \E k \in DOMAIN appReqs : appReqs[k].to = "remote" /\ appReqs[k].session = 1
    /\ appReqs[Len(appReqs)] = [session |-> 2, to |-> "local", failed |-> FALSE]

====
